---- MODULE Spec2Model ----
(***************************************************************************)
(* Model of apps/streamlit-app/streamlit_app.py: a Streamlit script that   *)
(* is executed top to bottom once per browser interaction.  The state is   *)
(* st.session_state (user, messages) plus what the last script run left on *)
(* the page.  One action is one script run triggered by one widget event. *)
(*                                                                         *)
(* Python values are tagged records; a Python str is a sequence of tokens, *)
(* so that an f-string is the concatenation of its pieces.                 *)
(***************************************************************************)
EXTENDS Integers, Sequences, FiniteSets, TLC

VARIABLES
    user,       \* st.session_state.user
    messages,   \* st.session_state.messages: sequence of <<role, content>>
    widgets,    \* the input widgets the last script run put on the page
    shown,      \* the notices the last script run displayed, in order
    end,        \* how the last script run ended: done, stop, rerun, exception
    calls,      \* the POSTs the last script run issued, in order
    ev,         \* the event that triggered the last script run
    turns,      \* history: the chat inputs and backend answers of the latest
                \* authenticated session, kept until the next form submit
    pydantic    \* major version of the installed pydantic (1 or 2)

vars == <<user, messages, widgets, shown, end, calls, ev, turns, pydantic>>

(* Bound of the model: chat turns per authenticated session. *)
MaxTurns == 2

-----------------------------------------------------------------------------
(* Python values *)

PyNone == [t |-> "None"]
PyStr(s) == [t |-> "str", s |-> s]
PyInt(n) == [t |-> "int", n |-> n]
PyList == [t |-> "list"]
PyDict(f) == [t |-> "dict", d |-> f]
EmptyDict == PyDict([k \in {} |-> PyNone])

(* bool(v), as the `if st.session_state.user` tests apply it *)
Truthy(v) ==
    CASE v.t = "None" -> FALSE
      [] v.t = "str"  -> v.s # <<>>
      [] v.t = "int"  -> v.n # 0
      [] v.t = "dict" -> DOMAIN v.d # {}
      [] OTHER        -> TRUE

(* str(v) inside an f-string *)
Str(v) ==
    CASE v.t = "None" -> <<"None">>
      [] v.t = "str"  -> v.s
      [] v.t = "int"  -> <<ToString(v.n)>>
      [] v.t = "list" -> <<"[...]">>
      [] OTHER        -> <<"{...}">>

(* f"{prefix}{text}" *)
Format(prefix, text) == <<prefix>> \o text

Return(v) == [ok |-> TRUE, val |-> v]
Raise(exc, msg) == [ok |-> FALSE, exc |-> exc, msg |-> msg]

(* v[key] *)
GetItem(v, key) ==
    IF v.t # "dict"
    THEN Raise("TypeError", <<"indices must be integers">>)
    ELSE IF key \notin DOMAIN v.d
         THEN Raise("KeyError", <<"'", key, "'">>)
         ELSE Return(v.d[key])

-----------------------------------------------------------------------------
(* The backend's answers *)

NotJson == [t |-> "notjson"]

Answer(status, body) == [net |-> "ok", status |-> status, body |-> body]
ConnectFailure == [net |-> "connect"]
Timeout == [net |-> "timeout"]

Is2xx(status) == status \in 200..299

(* api_post: POST, raise_for_status, r.json() *)
api_post(path, payload, resp) ==
    IF resp.net = "connect" THEN Raise("ConnectError", <<"All connection attempts failed">>)
    ELSE IF resp.net = "timeout" THEN Raise("ReadTimeout", <<"timed out">>)
    ELSE IF ~Is2xx(resp.status)
         THEN Raise("HTTPStatusError", <<"status ", ToString(resp.status), " for url ", path>>)
    ELSE IF resp.body = NotJson
         THEN Raise("JSONDecodeError", <<"Expecting value">>)
    ELSE Return(resp.body)

Post(path, payload) == [path |-> path, payload |-> payload]

Notice(kind, text) == [kind |-> kind, text |-> text]

-----------------------------------------------------------------------------
(* Sidebar: logout *)

(* mutants: a logout that forgets one of its two assignments *)
LogoutKeepsHistory(u, m) ==
    [user |-> PyNone, messages |-> m,
     shown |-> <<Notice("toast", <<"Logged out">>)>>,
     end |-> "rerun", calls |-> <<>>]

LogoutKeepsUser(u, m) ==
    [user |-> u, messages |-> <<>>,
     shown |-> <<Notice("toast", <<"Logged out">>)>>,
     end |-> "rerun", calls |-> <<>>]

LogoutHandler(u, m) ==
    [user |-> PyNone, messages |-> <<>>,
     shown |-> <<Notice("toast", <<"Logged out">>)>>,
     end |-> "rerun", calls |-> <<>>]

-----------------------------------------------------------------------------
(* Sidebar: login form *)

(* he.response.json().get("detail", str(he)), evaluated inside the           *)
(* `except httpx.HTTPStatusError` clause: what it raises is not caught by    *)
(* the `except Exception` clause that follows it.                            *)
ErrorDetail(resp, he) ==
    IF resp.body = NotJson THEN Raise("JSONDecodeError", <<"Expecting value">>)
    ELSE IF resp.body.t # "dict"
         THEN Raise("AttributeError", <<"object has no attribute 'get'">>)
    ELSE IF "detail" \in DOMAIN resp.body.d THEN Return(resp.body.d["detail"])
    ELSE Return(PyStr(he))

Fallthrough(u, m, shown_, calls_) ==
    [user |-> u, messages |-> m, shown |-> shown_, end |-> "continue", calls |-> calls_]

Uncaught(u, m, e, calls_) ==
    [user |-> u, messages |-> m,
     shown |-> <<Notice("exception", <<e.exc, ": ">> \o e.msg)>>,
     end |-> "exception", calls |-> calls_]

(* the except clauses shared by both forms: HTTPStatusError, then Exception *)
AuthError(u, m, what, resp, e, calls_) ==
    IF e.exc = "HTTPStatusError"
    THEN LET detail == ErrorDetail(resp, e.msg) IN
         IF detail.ok
         THEN Fallthrough(u, m,
                  <<Notice("error", Format(what, <<" failed: ">> \o Str(detail.val)))>>, calls_)
         ELSE Uncaught(u, m, detail, calls_)
    ELSE Fallthrough(u, m, <<Notice("error", Format(what, <<" error: ">> \o e.msg))>>, calls_)

LoginPayload(email, password) ==
    PyDict([email |-> PyStr(email), password |-> PyStr(password)])

(* mutant: stores the whole response body instead of data["user"] *)
LoginStoresBody(u, m, login_email, login_password, resp) ==
    LET payload == LoginPayload(login_email, login_password)
        calls_ == <<Post("/auth/login", payload)>>
        data == api_post("/auth/login", payload, resp)
    IN  IF ~data.ok THEN AuthError(u, m, "Login", resp, data, calls_)
        ELSE [user |-> data.val, messages |-> m,
              shown |-> <<Notice("toast", <<"Login successful">>)>>,
              end |-> "rerun", calls |-> calls_]

(* mutant: assigns session.user before the response is known to be good *)
LoginAssignsEarly(u, m, login_email, login_password, resp) ==
    LET payload == LoginPayload(login_email, login_password)
        calls_ == <<Post("/auth/login", payload)>>
        early == PyDict([email |-> PyStr(login_email)])
        data == api_post("/auth/login", payload, resp)
    IN  IF ~data.ok THEN AuthError(early, m, "Login", resp, data, calls_)
        ELSE LET item == GetItem(data.val, "user") IN
             IF ~item.ok THEN AuthError(early, m, "Login", resp, item, calls_)
             ELSE [user |-> item.val, messages |-> m,
                   shown |-> <<Notice("toast", <<"Login successful">>)>>,
                   end |-> "rerun", calls |-> calls_]

LoginHandler(u, m, login_email, login_password, resp) ==
    LET payload == LoginPayload(login_email, login_password)
        calls_ == <<Post("/auth/login", payload)>>
        data == api_post("/auth/login", payload, resp)
    IN  IF ~data.ok THEN AuthError(u, m, "Login", resp, data, calls_)
        ELSE LET item == GetItem(data.val, "user") IN
             IF ~item.ok THEN AuthError(u, m, "Login", resp, item, calls_)
             ELSE [user |-> item.val, messages |-> m,
                   shown |-> <<Notice("toast", <<"Login successful">>)>>,
                   end |-> "rerun", calls |-> calls_]

-----------------------------------------------------------------------------
(* Sidebar: register form *)

(* EmailStr(reg_email): a call of the class, which is not a validation.     *)
(* pydantic 1: EmailStr subclasses str, the call builds a str.               *)
(* pydantic 2: EmailStr is a plain class without __init__, the call raises.  *)
EmailStrCall(value, py) ==
    IF py = 1 THEN Return(PyStr(value))
    ELSE Raise("TypeError", <<"EmailStr() takes no arguments">>)

(* mutant: no comparison of password and confirm-password *)
RegisterSkipsConfirm(u, m, reg_email, reg_password, reg_confirm, resp, py) ==
    LET checked == EmailStrCall(reg_email, py) IN
    IF ~checked.ok THEN AuthError(u, m, "Registration", resp, checked, <<>>)
    ELSE LET payload == LoginPayload(reg_email, reg_password)
             calls_ == <<Post("/auth/register", payload)>>
             data == api_post("/auth/register", payload, resp)
         IN  IF ~data.ok THEN AuthError(u, m, "Registration", resp, data, calls_)
             ELSE Fallthrough(u, m,
                      <<Notice("success", <<"Registration successful. You can log in now.">>)>>,
                      calls_)

(* mutant: the auto-login the source keeps commented out *)
RegisterAutoLogin(u, m, reg_email, reg_password, reg_confirm, resp, py) ==
    IF reg_password # reg_confirm
    THEN Fallthrough(u, m, <<Notice("error", <<"Passwords do not match.">>)>>, <<>>)
    ELSE LET checked == EmailStrCall(reg_email, py) IN
         IF ~checked.ok THEN AuthError(u, m, "Registration", resp, checked, <<>>)
         ELSE LET payload == LoginPayload(reg_email, reg_password)
                  calls_ == <<Post("/auth/register", payload)>>
                  data == api_post("/auth/register", payload, resp)
              IN  IF ~data.ok THEN AuthError(u, m, "Registration", resp, data, calls_)
                  ELSE [user |-> data.val, messages |-> m,
                        shown |-> <<Notice("success", <<"Registration successful. You can log in now.">>)>>,
                        end |-> "rerun", calls |-> calls_]

RegisterHandler(u, m, reg_email, reg_password, reg_confirm, resp, py) ==
    IF reg_password # reg_confirm
    THEN Fallthrough(u, m, <<Notice("error", <<"Passwords do not match.">>)>>, <<>>)
    ELSE LET checked == EmailStrCall(reg_email, py) IN
         IF ~checked.ok THEN AuthError(u, m, "Registration", resp, checked, <<>>)
         ELSE LET payload == LoginPayload(reg_email, reg_password)
                  calls_ == <<Post("/auth/register", payload)>>
                  data == api_post("/auth/register", payload, resp)
              IN  IF ~data.ok THEN AuthError(u, m, "Registration", resp, data, calls_)
                  ELSE Fallthrough(u, m,
                           <<Notice("success", <<"Registration successful. You can log in now.">>)>>,
                           calls_)

-----------------------------------------------------------------------------
(* Main area: chat *)

(* ChatResponse built from the keywords of data, then .reply (reply: str).  *)
(* pydantic 1 coerces a number to its string; pydantic 2 rejects it.        *)
ChatResponse(data, py) ==
    IF data.t # "dict" THEN Raise("TypeError", <<"argument after ** must be a mapping">>)
    ELSE IF "reply" \notin DOMAIN data.d
         THEN Raise("ValidationError", <<"1 validation error for ChatResponse: reply field required">>)
    ELSE LET reply == data.d["reply"] IN
         IF reply.t = "str" THEN Return(reply.s)
         ELSE IF reply.t = "int" /\ py = 1 THEN Return(Str(reply))
         ELSE Raise("ValidationError", <<"1 validation error for ChatResponse: reply not a valid string">>)

ChatPayload(prompt) == PyDict([message |-> PyStr(prompt)])

(* mutant: only the failures of api_post are caught; a rejected body ends   *)
(* the handler after the first append                                       *)
ChatCatchesHttpOnly(u, m, prompt, resp, py) ==
    LET m1 == Append(m, <<"user", prompt>>)
        payload == ChatPayload(prompt)
        data == api_post("/chat", payload, resp)
        parsed == IF data.ok THEN ChatResponse(data.val, py) ELSE data
        bot_reply == IF parsed.ok THEN parsed.val
                     ELSE Format("Error contacting API: ", parsed.msg)
    IN  IF data.ok /\ ~parsed.ok
        THEN Uncaught(u, m1, parsed, <<Post("/chat", payload)>>)
        ELSE [user |-> u, messages |-> Append(m1, <<"assistant", bot_reply>>),
              shown |-> <<>>, end |-> "continue", calls |-> <<Post("/chat", payload)>>]

(* mutant: newest entries first *)
ChatPrepends(u, m, prompt, resp, py) ==
    LET payload == ChatPayload(prompt)
        data == api_post("/chat", payload, resp)
        parsed == IF data.ok THEN ChatResponse(data.val, py) ELSE data
        bot_reply == IF parsed.ok THEN parsed.val
                     ELSE Format("Error contacting API: ", parsed.msg)
    IN  [user |-> u, messages |-> <<<<"user", prompt>>, <<"assistant", bot_reply>>>> \o m,
         shown |-> <<>>, end |-> "continue", calls |-> <<Post("/chat", payload)>>]

ChatHandler(u, m, prompt, resp, py) ==
    LET m1 == Append(m, <<"user", prompt>>)
        payload == ChatPayload(prompt)
        data == api_post("/chat", payload, resp)
        parsed == IF data.ok THEN ChatResponse(data.val, py) ELSE data
        bot_reply == IF parsed.ok THEN parsed.val
                     ELSE Format("Error contacting API: ", parsed.msg)
    IN  [user |-> u, messages |-> Append(m1, <<"assistant", bot_reply>>),
         shown |-> <<>>, end |-> "continue", calls |-> <<Post("/chat", payload)>>]

-----------------------------------------------------------------------------
(* One script run, top to bottom *)

Page(r, widgets_, before) ==
    [user |-> r.user, messages |-> r.messages, widgets |-> widgets_,
     shown |-> before \o r.shown, end |-> r.end, calls |-> r.calls]

(* from st.divider() on: the login gate, the caption, the replay, the input *)
Main(u, m, widgets_, shown_, calls_, e, py) ==
    IF ~Truthy(u)
    THEN [user |-> u, messages |-> m, widgets |-> widgets_,
          shown |-> Append(shown_, Notice("info", <<"Please log in to start chatting.">>)),
          end |-> "stop", calls |-> calls_]
    ELSE LET email == GetItem(u, "email") IN
         IF ~email.ok THEN Page(Uncaught(u, m, email, calls_), widgets_, shown_)
         ELSE LET caption == Append(shown_, Notice("caption", Format("Signed in as ", Str(email.val))))
                  chat == IF e.kind = "chat"
                          THEN ChatHandler(u, m, e.prompt, e.resp, py)
                          ELSE Fallthrough(u, m, <<>>, <<>>)
              IN  [user |-> chat.user, messages |-> chat.messages,
                   widgets |-> widgets_ \cup {"chat_input"},
                   shown |-> caption \o chat.shown,
                   end |-> "done", calls |-> calls_ \o chat.calls]

Script(u, m, e, py) ==
    IF Truthy(u)
    THEN LET email == GetItem(u, "email") IN
         IF ~email.ok THEN Page(Uncaught(u, m, email, <<>>), {}, <<>>)
         ELSE LET profile == <<Notice("success", Format("Logged in as ", Str(email.val)))>> IN
              IF e.kind = "logout"
              THEN Page(LogoutHandler(u, m), {"logout"}, profile)
              ELSE Main(u, m, {"logout"}, profile, <<>>, e, py)
    ELSE LET login == IF e.kind = "login"
                      THEN LoginHandler(u, m, e.email, e.password, e.resp)
                      ELSE Fallthrough(u, m, <<>>, <<>>)
         IN  IF login.end # "continue" THEN Page(login, {"login_form"}, <<>>)
             ELSE LET register == IF e.kind = "register"
                                  THEN RegisterHandler(login.user, login.messages, e.email,
                                           e.password, e.confirm, e.resp, py)
                                  ELSE Fallthrough(login.user, login.messages, <<>>, <<>>)
                      forms == {"login_form", "register_form"}
                  IN  IF register.end # "continue"
                      THEN Page(register, forms, login.shown)
                      ELSE Main(register.user, register.messages, forms,
                                login.shown \o register.shown,
                                login.calls \o register.calls, e, py)

-----------------------------------------------------------------------------
(* What the user types and what the backend answers *)

Emails == {<<"a", "@", "example.com">>, <<"not-an-email">>}
Passwords == {<<"pw">>, <<"pw2">>}
Prompts == {<<"hello">>, <<"refund?">>}

UserIds == {1, 2}
BackendEmails == {<<"a", "@", "example.com">>, <<"b", "@", "example.com">>}
User(id, email) == PyDict([id |-> PyInt(id), email |-> PyStr(email)])
Users == {User(id, email) : id \in UserIds, email \in BackendEmails}

Detail(text) == PyDict([detail |-> PyStr(text)])

Unreachable == {ConnectFailure, Timeout}

LoginAnswers ==
    Unreachable
    \cup {Answer(200, PyDict([message |-> PyStr(<<"Login successful">>), user |-> usr])) :
              usr \in Users \cup {PyNone, EmptyDict, PyDict([id |-> PyInt(1)])}}
    \cup {Answer(200, body) :
              body \in {NotJson, PyList, PyDict([message |-> PyStr(<<"Login successful">>)])}}
    \cup {Answer(401, Detail(<<"Invalid credentials">>)), Answer(500, EmptyDict),
          Answer(422, PyDict([detail |-> PyList])),
          Answer(502, NotJson), Answer(503, PyList)}

RegisterAnswers ==
    Unreachable
    \cup {Answer(201, usr) : usr \in Users}
    \cup {Answer(200, NotJson),
          Answer(400, Detail(<<"Email already registered">>)), Answer(500, EmptyDict),
          Answer(502, NotJson), Answer(503, PyList)}

ChatAnswers ==
    Unreachable
    \cup {Answer(200, PyDict([reply |-> PyStr(text)])) : text \in {<<"hi there">>, <<"ok">>}}
    \cup {Answer(200, body) :
              body \in {NotJson, PyList, EmptyDict,
                        PyDict([reply |-> PyNone]), PyDict([reply |-> PyInt(5)])}}
    \cup {Answer(500, Detail(<<"Internal Server Error">>)), Answer(502, NotJson)}

-----------------------------------------------------------------------------
(* State machine *)

Run(e) ==
    LET r == Script(user, messages, e, pydantic) IN
    /\ user' = r.user
    /\ messages' = r.messages
    /\ widgets' = r.widgets
    /\ shown' = r.shown
    /\ end' = r.end
    /\ calls' = r.calls
    /\ ev' = e
    /\ turns' = IF e.kind = "chat" THEN Append(turns, [prompt |-> e.prompt, resp |-> e.resp])
                ELSE IF e.kind \in {"login", "register"} THEN <<>>
                ELSE turns
    /\ UNCHANGED pydantic

FirstRun(py) == Script(PyNone, <<>>, [kind |-> "render"], py)

Init ==
    /\ pydantic \in {1, 2}
    /\ user = FirstRun(pydantic).user
    /\ messages = FirstRun(pydantic).messages
    /\ widgets = FirstRun(pydantic).widgets
    /\ shown = FirstRun(pydantic).shown
    /\ end = FirstRun(pydantic).end
    /\ calls = FirstRun(pydantic).calls
    /\ ev = [kind |-> "render"]
    /\ turns = <<>>

(* a rerun: st.rerun(), or the browser asking for one *)
Render == Run([kind |-> "render"])

Logout ==
    /\ end # "rerun"
    /\ "logout" \in widgets
    /\ Run([kind |-> "logout"])

LoginSubmit ==
    /\ end # "rerun"
    /\ "login_form" \in widgets
    /\ \E email \in Emails, password \in Passwords, resp \in LoginAnswers :
           Run([kind |-> "login", email |-> email, password |-> password, resp |-> resp])

RegisterSubmit ==
    /\ end # "rerun"
    /\ "register_form" \in widgets
    /\ \E email \in Emails, password \in Passwords, confirm \in Passwords,
          resp \in RegisterAnswers :
           Run([kind |-> "register", email |-> email, password |-> password,
                confirm |-> confirm, resp |-> resp])

ChatInput ==
    /\ end # "rerun"
    /\ "chat_input" \in widgets
    /\ Len(messages) < 2 * MaxTurns
    /\ \E prompt \in Prompts, resp \in ChatAnswers :
           Run([kind |-> "chat", prompt |-> prompt, resp |-> resp])

Next == Render \/ Logout \/ LoginSubmit \/ RegisterSubmit \/ ChatInput

Spec == Init /\ [][Next]_vars

-----------------------------------------------------------------------------
(* Vocabulary of the properties *)

(* what an email validator accepts, on the model's addresses: local @ domain *)
ValidEmailFormat(email) == Len(email) = 3 /\ email[2] = "@"

IsUserRecord(v) ==
    /\ v.t = "dict"
    /\ DOMAIN v.d = {"id", "email"}
    /\ v.d["id"].t = "int"
    /\ v.d["email"].t = "str"

Answered2xx(resp) == resp.net = "ok" /\ Is2xx(resp.status)
AnsweredNon2xx(resp) == resp.net = "ok" /\ ~Is2xx(resp.status)
HasField(body, key) == body # NotJson /\ body.t = "dict" /\ key \in DOMAIN body.d

IsErrorText(text) == Len(text) >= 2 /\ text[1] = "Error contacting API: "

HasNotice(kind) == \E i \in 1..Len(shown) : shown[i].kind = kind

-----------------------------------------------------------------------------
(* C1: the chat history is non-empty only while a user is present in the    *)
(* session: no reachable state has messages non-empty and user absent.      *)
C1_HistoryOnlyWhenAuthenticated ==
    messages # <<>> => (user # PyNone /\ Truthy(user))

C1_Witness == messages # <<>> /\ IsUserRecord(user) /\ ev.kind = "chat"

(* C2: a login answered 2xx with a body carrying a user record takes the   *)
(* session from anonymous to authenticated, stores exactly the returned    *)
(* record in session.user and leaves the history as it was.                *)
C2_LoginStoresReturnedUser ==
    [][(/\ ev'.kind = "login"
        /\ Answered2xx(ev'.resp)
        /\ HasField(ev'.resp.body, "user")
        /\ IsUserRecord(ev'.resp.body.d["user"]))
       => (/\ ~Truthy(user)
           /\ user' = ev'.resp.body.d["user"]
           /\ Truthy(user')
           /\ messages' = messages
           /\ end' = "rerun")]_vars

C2_Witness ==
    /\ ev.kind = "login"
    /\ end = "rerun"
    /\ IsUserRecord(user)
    /\ user = ev.resp.body.d["user"]
    /\ user.d["email"].s # ev.email

(* C3: a logout leaves user absent and the history empty, whatever they    *)
(* were before.                                                            *)
C3_LogoutClearsSession ==
    [][ev'.kind = "logout" => (user' = PyNone /\ messages' = <<>>)]_vars

C3_Witness ==
    /\ ev.kind = "logout"
    /\ Len(turns) = 2
    /\ user = PyNone
    /\ messages = <<>>

-----------------------------------------------------------------------------
ChatFailsAsStated(resp) ==
    \/ resp.net # "ok"
    \/ ~Is2xx(resp.status)
    \/ resp.body = NotJson
    \/ ~HasField(resp.body, "reply")
    \/ resp.body.d["reply"].t # "str"

FailedTurnAppended(old, new, prompt, resp) ==
    /\ Len(new) = Len(old) + 2
    /\ SubSeq(new, 1, Len(old)) = old
    /\ new[Len(old) + 1] = <<"user", prompt>>
    /\ new[Len(old) + 2][1] = "assistant"
    /\ IsErrorText(new[Len(old) + 2][2])
    /\ LET raised == api_post("/chat", ChatPayload(prompt), resp) IN
       ~raised.ok => new[Len(old) + 2][2] = <<"Error contacting API: ">> \o raised.msg

(* C4 as stated: a chat turn whose backend call fails (connection failure, *)
(* timeout, non-2xx status, body that is not JSON, JSON body without a      *)
(* string 'reply' field) appends exactly (user, input) and then (assistant, *)
(* error text with the failure description), keeps the session             *)
(* authenticated and leaves the chat input on the page.                    *)
C4_FailedTurnAsStated ==
    [][(ev'.kind = "chat" /\ ChatFailsAsStated(ev'.resp))
       => (/\ FailedTurnAppended(messages, messages', ev'.prompt, ev'.resp)
           /\ user' = user /\ Truthy(user')
           /\ end' = "done" /\ "chat_input" \in widgets')]_vars

ReplyCoerced(resp, py) ==
    /\ Answered2xx(resp)
    /\ HasField(resp.body, "reply")
    /\ resp.body.d["reply"].t = "int"
    /\ py = 1

(* C4 amended: a chat turn whose backend call fails (connection failure,   *)
(* timeout, non-2xx status, body that is not JSON, JSON body that is not   *)
(* an object, lacks 'reply' or has a 'reply' ChatResponse rejects) appends *)
(* exactly (user, input) and then (assistant, error text with the failure  *)
(* description).  A numeric 'reply' is such a failure only under pydantic  *)
(* 2; pydantic 1 coerces it and its string form is the assistant entry.    *)
(* In every case exactly two entries are appended, the session stays       *)
(* authenticated and the chat input stays on the page.                     *)
C4_FailedTurnAppendsTwo ==
    [][(ev'.kind = "chat" /\ ChatFailsAsStated(ev'.resp))
       => (/\ IF ReplyCoerced(ev'.resp, pydantic)
              THEN messages' = messages \o
                       <<<<"user", ev'.prompt>>,
                         <<"assistant", <<ToString(ev'.resp.body.d["reply"].n)>>>>>>
              ELSE FailedTurnAppended(messages, messages', ev'.prompt, ev'.resp)
           /\ user' = user /\ Truthy(user')
           /\ end' = "done" /\ "chat_input" \in widgets')]_vars

C4_Witness ==
    /\ ev.kind = "chat"
    /\ ev.resp = ConnectFailure
    /\ Len(messages) = 4
    /\ messages[3] = <<"user", ev.prompt>>
    /\ messages[4] = <<"assistant", <<"Error contacting API: ", "All connection attempts failed">>>>
    /\ IsErrorText(messages[2][2])
    /\ "chat_input" \in widgets

TurnSucceeded(turn) ==
    /\ Answered2xx(turn.resp)
    /\ HasField(turn.resp.body, "reply")
    /\ turn.resp.body.d["reply"].t = "str"

C5_HistoryIsTheTurns ==
    (Truthy(user) /\ \A k \in 1..Len(turns) : TurnSucceeded(turns[k]))
    => /\ Len(messages) = 2 * Len(turns)
       /\ \A k \in 1..Len(turns) :
              /\ messages[2 * k - 1] = <<"user", turns[k].prompt>>
              /\ messages[2 * k] = <<"assistant", turns[k].resp.body.d["reply"].s>>

C5_AppendOnlyStep ==
    /\ ev'.kind \in {"chat", "render"} =>
           /\ Len(messages') >= Len(messages)
           /\ SubSeq(messages', 1, Len(messages)) = messages
    /\ ev'.kind = "chat" => Len(messages') = Len(messages) + 2

(* C5: a chat turn and a rerun keep every existing entry in place, a chat   *)
(* turn adds two entries at the end, and in a session whose turns all got a *)
(* 2xx answer with a string reply the history is, turn by turn, (user,      *)
(* k-th input), (assistant, k-th reply): 2N entries after N turns.          *)
C5_AppendOnlyInOrder == []C5_HistoryIsTheTurns /\ [][C5_AppendOnlyStep]_vars

C5_Witness ==
    /\ Truthy(user)
    /\ Len(turns) = 2
    /\ \A k \in 1..Len(turns) : TurnSucceeded(turns[k])
    /\ turns[1].prompt # turns[2].prompt
    /\ turns[1].resp # turns[2].resp
    /\ Len(messages) = 4
    /\ ev.kind = "chat"

TransportOrStatusFailure(resp) ==
    resp.net # "ok" \/ ~Is2xx(resp.status) \/ resp.body = NotJson

LoginFails(resp) ==
    TransportOrStatusFailure(resp) \/ ~HasField(resp.body, "user")

RegisterFails(e) ==
    \/ e.password # e.confirm
    \/ ~ValidEmailFormat(e.email)
    \/ TransportOrStatusFailure(e.resp)

(* C6: a failed login or registration (passwords that differ, an email of  *)
(* invalid format, a backend that is unreachable or times out, a non-2xx   *)
(* answer with any body, a 2xx answer that is not JSON or has no 'user'    *)
(* field) leaves session.user and session.messages as they were, and the   *)
(* session anonymous.                                                      *)
C6_FailedAuthKeepsSession ==
    [][(\/ ev'.kind = "login" /\ LoginFails(ev'.resp)
        \/ ev'.kind = "register" /\ RegisterFails(ev'))
       => (user' = user /\ messages' = messages /\ ~Truthy(user'))]_vars

C6_Witness ==
    /\ ev.kind = "login"
    /\ Answered2xx(ev.resp)
    /\ ev.resp.body # NotJson
    /\ ev.resp.body.t = "dict"
    /\ ~HasField(ev.resp.body, "user")
    /\ shown[1] = Notice("error", <<"Login", " error: ", "'", "user", "'">>)
    /\ user = PyNone
    /\ messages = <<>>

(* C7: a registration submit whose password and confirm-password differ    *)
(* issues no POST at all, whatever the email, and leaves session.user and  *)
(* session.messages as they were.                                          *)
C7_MismatchIssuesNoCall ==
    [][(ev'.kind = "register" /\ ev'.password # ev'.confirm)
       => (calls' = <<>> /\ user' = user /\ messages' = messages)]_vars

C7_Witness ==
    /\ ev.kind = "register"
    /\ ev.password # ev.confirm
    /\ ValidEmailFormat(ev.email)
    /\ pydantic = 1
    /\ calls = <<>>
    /\ shown[1] = Notice("error", <<"Passwords do not match.">>)

(* C8: a registration submit with matching passwords issues no POST and    *)
(* shows an error when the email has an invalid format, and issues exactly *)
(* one POST to /auth/register with body {email, password} when the email   *)
(* has a valid format.                                                     *)
C8_EmailCheckedLocally ==
    (ev.kind = "register" /\ ev.password = ev.confirm)
    => IF ValidEmailFormat(ev.email)
       THEN calls = <<Post("/auth/register", LoginPayload(ev.email, ev.password))>>
       ELSE calls = <<>> /\ HasNotice("error")

RegisterAccepted(e, calls_) ==
    /\ e.kind = "register"
    /\ calls_ # <<>>
    /\ Answered2xx(e.resp)
    /\ e.resp.body # NotJson

C9_RegisterStep ==
    /\ RegisterAccepted(ev', calls') =>
           /\ user' = user /\ messages' = messages
           /\ ~Truthy(user')
           /\ "chat_input" \notin widgets'
           /\ end' = "stop"
    /\ (~Truthy(user) /\ Truthy(user')) => ev'.kind = "login"

(* C9: a registration the backend accepts leaves session.user and           *)
(* session.messages as they were and the session anonymous, without the    *)
(* chat input; the chat input is on the page only for a present user, and  *)
(* only a login makes the user present.                                     *)
C9_RegisterStaysAnonymous ==
    []("chat_input" \in widgets => Truthy(user)) /\ [][C9_RegisterStep]_vars

C9_Witness ==
    /\ RegisterAccepted(ev, calls)
    /\ IsUserRecord(ev.resp.body)
    /\ shown[1] = Notice("success", <<"Registration successful. You can log in now.">>)
    /\ user = PyNone
    /\ "chat_input" \notin widgets

StatusErrorNotice(notice, resp) ==
    /\ notice.kind = "error"
    /\ IF HasField(resp.body, "detail")
       THEN \E what \in {"Login", "Registration"} :
                notice.text = <<what, " failed: ">> \o Str(resp.body.d["detail"])
       ELSE Len(notice.text) > 2 /\ notice.text[2] = " failed: " /\ notice.text[3] = "status "

C10_StatusErrorStep ==
    (ev'.kind \in {"login", "register"} /\ calls' # <<>> /\ AnsweredNon2xx(ev'.resp))
    => /\ end' = "stop"
       /\ \E i \in 1..Len(shown') : StatusErrorNotice(shown'[i], ev'.resp)
       /\ user' = user /\ messages' = messages

(* C10: a login or registration POST answered with a non-2xx status ends   *)
(* with an error notice carrying the body's 'detail' (or the description   *)
(* of the status error when there is none), the script run completes, and  *)
(* session.user and session.messages are as they were; for every body.     *)
C10_StatusErrorShown == [][C10_StatusErrorStep]_vars

====
